---- MODULE Spec2Model ----
(***************************************************************************)
(* Model of the Dubins car dynamics (systems/dubins_v1.py,                 *)
(* systems/dubins_v2.py) and of the 3rd order spline                       *)
(* (trajectory/spline/spline_3rd_order.py).                                *)
(*                                                                         *)
(* Numbers.  The dynamics are modelled over the integers: every operation  *)
(* they use is +, -, * and comparison, which are exact there.  Angles are  *)
(* counted in quarter turns, the only angles whose sine and cosine are     *)
(* rational, so Cos and Sin are exact too.  The spline divides, so it is   *)
(* modelled over exact rationals extended with the IEEE values +Inf, -Inf  *)
(* and NaN that a division by zero produces.  Rounding of float32 is not   *)
(* modelled.                                                               *)
(*                                                                         *)
(* Tensors.  A tensor of shape (n, k, d) is a sequence of n rows, each a   *)
(* sequence of k steps, each a d-tuple.                                    *)
(***************************************************************************)
EXTENDS Integers, Sequences, FiniteSets, TLC

VARIABLES
    model,    \* the Dubins model object: dt, v_bounds, w_bounds
    spline,   \* the attribute dictionary of the Spline3rdOrder object
    call      \* the last call made: its name, its arguments, its result

vars == <<model, spline, call>>

(***************************************************************************)
(* Bounds of the model.                                                    *)
(***************************************************************************)
MaxBound == 1     \* saturation bounds are drawn from -MaxBound..MaxBound
MaxCmd == 2       \* raw commands are drawn from -MaxCmd..MaxCmd
MaxK == 2         \* number of steps k of a state sequence
MaxSpeed == 1     \* start and goal speeds of the spline are drawn from 0..MaxSpeed
SplineK == 2      \* number of query times of an evaluation

Abs(a) == IF a < 0 THEN -a ELSE a
Sign(a) == IF a < 0 THEN -1 ELSE IF a > 0 THEN 1 ELSE 0

(***************************************************************************)
(* tf.cos, tf.sin on an angle given in quarter turns.                      *)
(***************************************************************************)
Cos(q) == CASE q % 4 = 0 -> 1
            [] q % 4 = 1 -> 0
            [] q % 4 = 2 -> -1
            [] q % 4 = 3 -> 0

Sin(q) == CASE q % 4 = 0 -> 0
            [] q % 4 = 1 -> 1
            [] q % 4 = 2 -> 0
            [] q % 4 = 3 -> -1

tf_minimum(a, b) == IF a < b THEN a ELSE b
tf_maximum(a, b) == IF a > b THEN a ELSE b

(***************************************************************************)
(* tf.clip_by_value(t, lo, hi) = maximum(minimum(t, hi), lo).              *)
(***************************************************************************)
tf_clip_by_value(t, lo, hi) == tf_maximum(tf_minimum(t, hi), lo)

(***************************************************************************)
(* The Trajectory container: pure data and accessors.                      *)
(***************************************************************************)
\* cls is "Trajectory", or "State", the one-step specialisation.
Construct(cls, dt, n, k, position_nk2, speed_nk1, acceleration_nk1, heading_nk1, angular_speed_nk1, angular_acceleration_nk1) ==
    [cls |-> cls, dt |-> dt, n |-> n, k |-> k,
     position_nk2 |-> position_nk2,
     speed_nk1 |-> speed_nk1,
     acceleration_nk1 |-> acceleration_nk1,
     heading_nk1 |-> heading_nk1,
     angular_speed_nk1 |-> angular_speed_nk1,
     angular_acceleration_nk1 |-> angular_acceleration_nk1]

\* a channel that is not given is filled with zeros
Zeros_nk1(n, k) == [i \in 1..n |-> [j \in 1..k |-> 0]]

Trajectory(dt, n, k, position_nk2, heading_nk1, speed_nk1, angular_speed_nk1) ==
    Construct("Trajectory", dt, n, k, position_nk2, speed_nk1, Zeros_nk1(n, k),
              heading_nk1, angular_speed_nk1, Zeros_nk1(n, k))

\* concat([position_nk2, heading_nk1], axis=2)
position_and_heading_nk3(traj) ==
    [i \in 1..Len(traj.position_nk2) |->
        [j \in 1..Len(traj.position_nk2[i]) |->
            <<traj.position_nk2[i][j][1], traj.position_nk2[i][j][2],
              traj.heading_nk1[i][j]>>]]

\* concat([speed_nk1, angular_speed_nk1], axis=2)
speed_and_angular_speed(traj) ==
    [i \in 1..Len(traj.speed_nk1) |->
        [j \in 1..Len(traj.speed_nk1[i]) |->
            <<traj.speed_nk1[i][j], traj.angular_speed_nk1[i][j]>>]]

(***************************************************************************)
(* Dubins_v1                                                               *)
(***************************************************************************)
Dubins_v1_simulate(x_nk3, u_nk2) ==
    [i \in 1..Len(x_nk3) |->
        [j \in 1..Len(x_nk3[i]) |->
            LET x_nk == x_nk3[i][j][1]
                y_nk == x_nk3[i][j][2]
                t_nk == x_nk3[i][j][3]
                v_nk == u_nk2[i][j][1]
                w_nk == u_nk2[i][j][2]
            IN  <<x_nk + v_nk * Cos(t_nk) * model.dt,
                  y_nk + v_nk * Sin(t_nk) * model.dt,
                  t_nk + w_nk * model.dt>>]]

Dubins_v1_parse_trajectory(trajectory) ==
    <<position_and_heading_nk3(trajectory), speed_and_angular_speed(trajectory)>>

\* B_nk23[i][j] is the pair of columns <<b1, b2>>, each a 3-tuple.
Dubins_v1_jac_u(trajectory) ==
    LET x_nk3 == Dubins_v1_parse_trajectory(trajectory)[1]
    IN  [i \in 1..Len(x_nk3) |->
            [j \in 1..Len(x_nk3[i]) |->
                LET t_nk == x_nk3[i][j][3]
                    b11_nk == Cos(t_nk) * model.dt
                    b21_nk == Sin(t_nk) * model.dt
                IN  << <<b11_nk, b21_nk, 0>>, <<0, 0, 1 * model.dt>> >>]]

\* tf.zeros((n, 1, u_dim)) appended along axis 1
ConcatOnes(u_nk2) == [i \in 1..Len(u_nk2) |-> Append(u_nk2[i], <<1, 1>>)]
ConcatZeros(u_nk2) == [i \in 1..Len(u_nk2) |-> Append(u_nk2[i], <<0, 0>>)]

\* the slices x_nk3[:,:,:2], x_nk3[:,:,2:3], u_nk2[:,:,0:1], u_nk2[:,:,1:2]
Slice_position(x_nk3) ==
    [i \in 1..Len(x_nk3) |-> [j \in 1..Len(x_nk3[i]) |-> <<x_nk3[i][j][1], x_nk3[i][j][2]>>]]
Slice_heading(x_nk3) ==
    [i \in 1..Len(x_nk3) |-> [j \in 1..Len(x_nk3[i]) |-> x_nk3[i][j][3]]]
Slice_speed(u_nk2) ==
    [i \in 1..Len(u_nk2) |-> [j \in 1..Len(u_nk2[i]) |-> u_nk2[i][j][1]]]
Slice_angular_speed(u_nk2) ==
    [i \in 1..Len(u_nk2) |-> [j \in 1..Len(u_nk2[i]) |-> u_nk2[i][j][2]]]

\* u_nk2.shape[1]: every row has the same number of steps
Shape1(a_nk) == Len(a_nk[1])

\* What a call gives back: the exception it raised ("none" when it returned)
\* and the value it returned.
Returned(value) == [raised |-> "none", ret |-> value]
Raised(exc) == [raised |-> exc, ret |-> <<>>]

\* A failed assert raises AssertionError and nothing is returned.
Dubins_v1_assemble_trajectory(x_nk3, u_nk2, zero_pad_u) ==
    LET n == Len(x_nk3)
        k == Shape1(x_nk3)
        failed == zero_pad_u /\ Shape1(u_nk2) + 1 # k /\ Shape1(u_nk2) # k
        u2_nk2 == IF zero_pad_u /\ Shape1(u_nk2) + 1 = k
                  THEN ConcatZeros(u_nk2) ELSE u_nk2
    IN  IF failed THEN Raised("AssertionError")
        ELSE Returned(Trajectory(model.dt, n, k, Slice_position(x_nk3),
                                 Slice_heading(x_nk3),
                                 Slice_speed(u2_nk2), Slice_angular_speed(u2_nk2)))

(***************************************************************************)
(* Dubins_v2                                                               *)
(***************************************************************************)
s1_other_bounds(vtilde) == tf_clip_by_value(vtilde, model.w_bounds[1], model.w_bounds[2])
s1(vtilde) == tf_clip_by_value(vtilde, model.v_bounds[1], model.v_bounds[2])

s2_unclipped(wtilde) == wtilde
s2(wtilde) == tf_clip_by_value(wtilde, model.w_bounds[1], model.w_bounds[2])

\* tf.cast(bool, dtype): True is 1, False is 0
Cast(b) == IF b THEN 1 ELSE 0

s1_prime_always_one(vtilde) == 1
s1_prime(vtilde) ==
    LET less_than_idx == vtilde < model.v_bounds[1]
        greater_than_idx == vtilde > model.v_bounds[2]
        zero_idxs == less_than_idx \/ greater_than_idx
    IN  Cast(~zero_idxs)

s2_prime_strict(wtilde) ==
    Cast(~(wtilde <= model.w_bounds[1] \/ wtilde >= model.w_bounds[2]))
s2_prime(wtilde) ==
    LET less_than_idx == wtilde < model.w_bounds[1]
        greater_than_idx == wtilde > model.w_bounds[2]
        zero_idxs == less_than_idx \/ greater_than_idx
    IN  Cast(~zero_idxs)

Dubins_v2_simulate(x_nk3, u_nk2) ==
    [i \in 1..Len(x_nk3) |->
        [j \in 1..Len(x_nk3[i]) |->
            LET v_nk == s1(u_nk2[i][j][1])
                delta_x == <<v_nk * Cos(x_nk3[i][j][3]),
                             v_nk * Sin(x_nk3[i][j][3]),
                             s2(u_nk2[i][j][2])>>
            IN  <<x_nk3[i][j][1] + model.dt * delta_x[1],
                  x_nk3[i][j][2] + model.dt * delta_x[2],
                  x_nk3[i][j][3] + model.dt * delta_x[3]>>]]

Dubins_v2_parse_trajectory(trajectory) ==
    <<position_and_heading_nk3(trajectory), speed_and_angular_speed(trajectory)>>

Dubins_v2_jac_u(trajectory) ==
    LET x_nk3 == Dubins_v2_parse_trajectory(trajectory)[1]
        u_nk2 == Dubins_v2_parse_trajectory(trajectory)[2]
    IN  [i \in 1..Len(x_nk3) |->
            [j \in 1..Len(x_nk3[i]) |->
                LET t_nk == x_nk3[i][j][3]
                    vtilde_nk == u_nk2[i][j][1]
                    wtilde_nk == u_nk2[i][j][2]
                    vtilde_prime_nk == s1_prime(vtilde_nk)
                    wtilde_prime_nk == s2_prime(wtilde_nk)
                    b11_nk == vtilde_prime_nk * Cos(t_nk) * model.dt
                    b21_nk == vtilde_prime_nk * Sin(t_nk) * model.dt
                    b32_nk == wtilde_prime_nk * model.dt
                IN  << <<b11_nk, b21_nk, 0>>, <<0, 0, b32_nk>> >>]]

\* tf.zeros((n, 1, u_dim)) + u_nk2[:, -1:], appended along axis 1.  The slice
\* of a control sequence with no step is empty, and so is the broadcast sum.
ConcatLast(u_nk2) ==
    [i \in 1..Len(u_nk2) |->
        IF Len(u_nk2[i]) = 0 THEN u_nk2[i]
        ELSE Append(u_nk2[i], u_nk2[i][Len(u_nk2[i])])]

\* pad_mode is "None", "zero", "repeat" or any other string.  The asserts of
\* the three branches:
Dubins_v2_pad_fails(x_nk3, u_nk2, pad_mode) ==
    LET k == Shape1(x_nk3)
    IN  IF pad_mode = "zero"
        THEN Shape1(u_nk2) + 1 # k /\ Shape1(u_nk2) # k
        ELSE IF pad_mode = "repeat"
        THEN Shape1(u_nk2) + 1 # k /\ Shape1(u_nk2) # k
        ELSE pad_mode # "None"

Dubins_v2_pad(x_nk3, u_nk2, pad_mode) ==
    LET k == Shape1(x_nk3)
    IN  IF pad_mode = "zero" /\ Shape1(u_nk2) + 1 = k THEN ConcatZeros(u_nk2)
        ELSE IF pad_mode = "repeat" /\ Shape1(u_nk2) + 1 = k THEN ConcatLast(u_nk2)
        ELSE u_nk2

Dubins_v2_assemble_trajectory(x_nk3, u_nk2, pad_mode) ==
    LET n == Len(x_nk3)
        k == Shape1(x_nk3)
        u2_nk2 == Dubins_v2_pad(x_nk3, u_nk2, pad_mode)
        speed_nk1 == Slice_speed(u2_nk2)
        angular_speed_nk1 == Slice_angular_speed(u2_nk2)
    IN  IF Dubins_v2_pad_fails(x_nk3, u_nk2, pad_mode) THEN Raised("AssertionError")
        ELSE Returned(Trajectory(model.dt, n, k, Slice_position(x_nk3),
                 Slice_heading(x_nk3),
                 [i \in 1..Len(speed_nk1) |->
                     [j \in 1..Len(speed_nk1[i]) |-> s1(speed_nk1[i][j])]],
                 [i \in 1..Len(angular_speed_nk1) |->
                     [j \in 1..Len(angular_speed_nk1[i]) |-> s2(angular_speed_nk1[i][j])]]))

(***************************************************************************)
(* Coordinate frames.  rotate_pos_nk2 and angle_normalize are the helpers  *)
(* of utils/angle_utils: the rotation of a position by an angle, and the   *)
(* wrap of an angle into the half-open turn (-2, 2] of quarter turns.      *)
(***************************************************************************)
\* tf broadcasting of two tensors of rows of steps: a dimension of size 1 is
\* stretched to the size of the other, any other mismatch is an error
Broadcastable(a_nk, b_nk) ==
    /\ Len(a_nk) = Len(b_nk) \/ Len(a_nk) = 1 \/ Len(b_nk) = 1
    /\ Shape1(a_nk) = Shape1(b_nk) \/ Shape1(a_nk) = 1 \/ Shape1(b_nk) = 1
BroadcastDim(a, b) == IF a = 1 THEN b ELSE a
\* the element of t_nk that meets row i, step j of the broadcast result
BroadcastAt(t_nk, i, j) ==
    t_nk[IF Len(t_nk) = 1 THEN 1 ELSE i][IF Shape1(t_nk) = 1 THEN 1 ELSE j]
\* the rows and the steps of the broadcast result
BroadcastRows(a_nk, b_nk) == 1..BroadcastDim(Len(a_nk), Len(b_nk))
BroadcastSteps(a_nk, b_nk) == 1..BroadcastDim(Shape1(a_nk), Shape1(b_nk))

RotatePos(pos, theta) ==
    <<pos[1] * Cos(theta) - pos[2] * Sin(theta), pos[1] * Sin(theta) + pos[2] * Cos(theta)>>
rotate_pos_nk2(pos_nk2, theta_nk1) ==
    [i \in BroadcastRows(pos_nk2, theta_nk1) |->
        [j \in BroadcastSteps(pos_nk2, theta_nk1) |->
            RotatePos(BroadcastAt(pos_nk2, i, j), BroadcastAt(theta_nk1, i, j))]]

angle_normalize(q) == IF (q % 4) > 2 THEN (q % 4) - 4 ELSE q % 4

\* the broadcast operations of the two transforms
SubPos(a_nk2, b_nk2) ==
    [i \in BroadcastRows(a_nk2, b_nk2) |->
        [j \in BroadcastSteps(a_nk2, b_nk2) |->
            <<BroadcastAt(a_nk2, i, j)[1] - BroadcastAt(b_nk2, i, j)[1],
              BroadcastAt(a_nk2, i, j)[2] - BroadcastAt(b_nk2, i, j)[2]>>]]
AddPos(a_nk2, b_nk2) ==
    [i \in BroadcastRows(a_nk2, b_nk2) |->
        [j \in BroadcastSteps(a_nk2, b_nk2) |->
            <<BroadcastAt(a_nk2, i, j)[1] + BroadcastAt(b_nk2, i, j)[1],
              BroadcastAt(a_nk2, i, j)[2] + BroadcastAt(b_nk2, i, j)[2]>>]]
SubHeading(a_nk1, b_nk1) ==
    [i \in BroadcastRows(a_nk1, b_nk1) |->
        [j \in BroadcastSteps(a_nk1, b_nk1) |->
            angle_normalize(BroadcastAt(a_nk1, i, j) - BroadcastAt(b_nk1, i, j))]]
AddHeading(a_nk1, b_nk1) ==
    [i \in BroadcastRows(a_nk1, b_nk1) |->
        [j \in BroadcastSteps(a_nk1, b_nk1) |->
            angle_normalize(BroadcastAt(a_nk1, i, j) + BroadcastAt(b_nk1, i, j))]]
Negate(t_nk1) == [i \in 1..Len(t_nk1) |-> [j \in 1..Len(t_nk1[i]) |-> -t_nk1[i][j]]]

\* the position and heading tensors of the reference, whole: tf broadcasts
\* them against those of the trajectory
RefPosition(ref_state) == ref_state.position_nk2
RefHeading(ref_state) == ref_state.heading_nk1

to_egocentric_coordinates(ref_state, traj) ==
    LET ref_position_1k2 == RefPosition(ref_state)
        ref_heading_1k1 == RefHeading(ref_state)
        shifted_nk2 == SubPos(traj.position_nk2, ref_position_1k2)
        position_nk2 == rotate_pos_nk2(shifted_nk2, Negate(ref_heading_1k1))
        heading_nk1 == SubHeading(traj.heading_nk1, ref_heading_1k1)
    IN  IF ~Broadcastable(traj.position_nk2, ref_position_1k2)
           \/ ~Broadcastable(traj.heading_nk1, ref_heading_1k1)
        THEN Raised("InvalidArgumentError")
        ELSE Returned(Construct(IF traj.k = 1 THEN "State" ELSE "Trajectory",
                                traj.dt, traj.n, traj.k,
                                position_nk2, traj.speed_nk1, traj.acceleration_nk1,
                                heading_nk1, traj.angular_speed_nk1,
                                traj.angular_acceleration_nk1))

to_world_translate_first(ref_state, traj) ==
    LET ref_position_1k2 == RefPosition(ref_state)
        ref_heading_1k1 == RefHeading(ref_state)
        shifted_nk2 == AddPos(traj.position_nk2, ref_position_1k2)
        position_nk2 == rotate_pos_nk2(shifted_nk2, ref_heading_1k1)
        heading_nk1 == AddHeading(traj.heading_nk1, ref_heading_1k1)
    IN  IF ~Broadcastable(traj.position_nk2, ref_position_1k2)
           \/ ~Broadcastable(traj.heading_nk1, ref_heading_1k1)
        THEN Raised("InvalidArgumentError")
        ELSE Returned(Construct(IF traj.k = 1 THEN "State" ELSE "Trajectory",
                                traj.dt, traj.n, traj.k,
                                position_nk2, traj.speed_nk1, traj.acceleration_nk1,
                                heading_nk1, traj.angular_speed_nk1,
                                traj.angular_acceleration_nk1))
to_world_coordinates(ref_state, traj) ==
    LET ref_position_1k2 == RefPosition(ref_state)
        ref_heading_1k1 == RefHeading(ref_state)
        rotated_nk2 == rotate_pos_nk2(traj.position_nk2, ref_heading_1k1)
        position_nk2 == AddPos(rotated_nk2, ref_position_1k2)
        heading_nk1 == AddHeading(traj.heading_nk1, ref_heading_1k1)
    IN  IF ~Broadcastable(traj.position_nk2, ref_heading_1k1)
           \/ ~Broadcastable(rotated_nk2, ref_position_1k2)
           \/ ~Broadcastable(traj.heading_nk1, ref_heading_1k1)
        THEN Raised("InvalidArgumentError")
        ELSE Returned(Construct(IF traj.k = 1 THEN "State" ELSE "Trajectory",
                                traj.dt, traj.n, traj.k,
                                position_nk2, traj.speed_nk1, traj.acceleration_nk1,
                                heading_nk1, traj.angular_speed_nk1,
                                traj.angular_acceleration_nk1))

(***************************************************************************)
(* Numbers of the spline: a rational <<n, d>> in lowest terms with d > 0,  *)
(* or one of the values a float division by zero gives: <<1, 0>> is +Inf,  *)
(* <<-1, 0>> is -Inf and <<0, 0>> is NaN.                                  *)
(***************************************************************************)
RECURSIVE Gcd(_, _)
Gcd(a, b) == IF b = 0 THEN a ELSE Gcd(b, a % b)

Q(n, d) ==
    IF d = 0 THEN <<Sign(n), 0>>
    ELSE LET g == Gcd(Abs(n), Abs(d))
         IN  <<(Sign(d) * n) \div g, Abs(d) \div g>>
QI(n) == <<n, 1>>
NaN == <<0, 0>>
IsFinite(a) == a[2] # 0

QNeg(a) == <<-a[1], a[2]>>
QAdd(a, b) ==
    IF a[2] = 0 /\ b[2] = 0 THEN (IF a = b THEN a ELSE NaN)
    ELSE IF a[2] = 0 THEN a
    ELSE IF b[2] = 0 THEN b
    ELSE LET g == Gcd(a[2], b[2])
         IN  Q(a[1] * (b[2] \div g) + b[1] * (a[2] \div g), a[2] * (b[2] \div g))
QMul(a, b) ==
    IF a[2] = 0 \/ b[2] = 0 THEN Q(a[1] * b[1], 0)
    ELSE LET g1 == Gcd(Abs(a[1]), b[2])
             g2 == Gcd(Abs(b[1]), a[2])
         IN  <<(a[1] \div g1) * (b[1] \div g2), (a[2] \div g2) * (b[2] \div g1)>>
QDiv(a, b) ==
    IF b[2] = 0 THEN (IF b[1] = 0 \/ a[2] = 0 THEN NaN ELSE QI(0))
    ELSE IF b[1] = 0 THEN Q(a[1], 0)
    ELSE QMul(a, <<Sign(b[1]) * b[2], Abs(b[1])>>)
QSub(a, b) == QAdd(a, QNeg(b))
QSquare(a) == QMul(a, a)
\* the float comparison a < b: false when either is NaN, -Inf < +Inf
QLess(a, b) ==
    IF a[2] = 0 /\ b[2] = 0 THEN a[1] # 0 /\ b[1] # 0 /\ a[1] < b[1]
    ELSE a[1] * b[2] < b[1] * a[2]

\* the integer square root of a perfect square, -1 for any other number
RECURSIVE Newton(_, _)
Newton(n, x) ==
    LET y == (x + n \div x) \div 2 IN IF y >= x THEN x ELSE Newton(n, y)
FloorSqrt(n) == IF n = 0 THEN 0 ELSE Newton(n, n)
ISqrt(n) == IF n >= 0 /\ FloorSqrt(n) * FloorSqrt(n) = n THEN FloorSqrt(n) ELSE -1

(***************************************************************************)
(* tf.sqrt of a finite rational a >= 0, times a rational factor: the real  *)
(* number coef * sqrt(rad), written with rad = 1 when the root is rational *)
(* and when the product is zero.                                           *)
(***************************************************************************)
Surd(coef, rad) ==
    IF coef[1] = 0 /\ coef[2] # 0 THEN [coef |-> QI(0), rad |-> QI(1)]
    ELSE IF ISqrt(rad[1]) >= 0 /\ ISqrt(rad[2]) >= 0
         THEN [coef |-> QMul(coef, <<ISqrt(rad[1]), ISqrt(rad[2])>>), rad |-> QI(1)]
         ELSE [coef |-> coef, rad |-> rad]
tf_sqrt(a) == Surd(QI(1), a)
SurdTimes(s, r) == Surd(QMul(s.coef, r), s.rad)
\* tf.square of coef * sqrt(rad)
SurdSquare(s) == QMul(QSquare(s.coef), s.rad)

(***************************************************************************)
(* tf.atan2(y, x) of finite rationals: the angle in (-pi, pi] of the       *)
(* direction <<x, y>>, written as that direction in lowest integer terms;  *)
(* atan2(0, 0) is the angle 0, the direction <<1, 0>>.                     *)
(***************************************************************************)
tf_atan2(y, x) ==
    LET g == Gcd(x[2], y[2])
        X == x[1] * (y[2] \div g)
        Y == y[1] * (x[2] \div g)
        h == Gcd(Abs(X), Abs(Y))
    IN  IF h = 0 THEN <<1, 0>> ELSE <<X \div h, Y \div h>>
\* the same writing of an angle given in quarter turns
AngleOf(q) == <<Cos(q), Sin(q)>>

(***************************************************************************)
(* Spline3rdOrder.  The object is its attribute dictionary: an attribute   *)
(* exists once it has been assigned.  start_n5 and goal_n5 rows are        *)
(* <<x, y, theta, v, w>> with theta in quarter turns.                      *)
(***************************************************************************)
Spline3rdOrder_init(k, start_n5) == [k |-> k, start_n5 |-> start_n5]

\* assignment of attributes: the new ones replace, the others stay
SetAttrs(obj, new) ==
    [a \in DOMAIN obj \cup DOMAIN new |-> IF a \in DOMAIN new THEN new[a] ELSE obj[a]]

\* tf.norm(goal_n5[:, :2], axis=1), used when the norm is rational
Norm2(row) == tf_sqrt(QAdd(QSquare(row[1]), QSquare(row[2]))).coef
HeuristicFactor(row) == LET norm == Norm2(row) IN <<norm, norm>>

\* the coefficient lists of row i: <<a1,b1,c1,d1>>, <<a2,b2,c2,d2>>, <<a3,b3,c3>>
FitRow(start, goal, factors) ==
    LET f1 == factors[1]
        f2 == factors[2]
        x0 == start[1]
        y0 == start[2]
        t0 == start[3]
        xg == goal[1]
        yg == goal[2]
        tg == goal[3]
        v0 == start[4]
        vf == goal[4]
        d1 == x0
        c1 == QMul(f1, QI(Cos(t0)))
        a1 == QAdd(QAdd(QSub(QMul(f2, QI(Cos(tg))), QMul(QI(2), xg)), c1), QMul(QI(2), d1))
        b1 == QSub(QSub(QSub(QMul(QI(3), xg), QMul(f2, QI(Cos(tg)))), QMul(QI(2), c1)),
                   QMul(QI(3), d1))
        d2 == y0
        c2 == QMul(f1, QI(Sin(t0)))
        a2 == QAdd(QAdd(QSub(QMul(f2, QI(Sin(tg))), QMul(QI(2), yg)), c2), QMul(QI(2), d2))
        b2 == QSub(QSub(QSub(QMul(QI(3), yg), QMul(f2, QI(Sin(tg)))), QMul(QI(2), c2)),
                   QMul(QI(3), d2))
        c3 == QDiv(v0, f1)
        a3 == QSub(QAdd(QDiv(vf, f2), c3), QI(2))
        b3 == QSub(QSub(QI(1), c3), a3)
    IN  [x_coeffs |-> <<a1, b1, c1, d1>>,
         y_coeffs |-> <<a2, b2, c2, d2>>,
         p_coeffs |-> <<a3, b3, c3>>]

\* FitRow of the first i rows; factors_n2 is "None", written <<>>, or a tensor
RECURSIVE FitRows(_, _, _, _)
FitRows(self, goal_n5, factors_n2, i) ==
    IF i = 0 THEN <<>>
    ELSE Append(FitRows(self, goal_n5, factors_n2, i - 1),
                FitRow(self.start_n5[i], goal_n5[i],
                       IF factors_n2 = <<>> THEN HeuristicFactor(goal_n5[i])
                       ELSE factors_n2[i]))

\* the attributes fit assigns; the coefficient lists hold (n, 1) columns
FitAttrs(self, goal_n5, factors_n2) ==
    LET rows == FitRows(self, goal_n5, factors_n2, Len(goal_n5))
    IN  [goal_n5 |-> goal_n5,
         x_coeffs |-> [c \in 1..4 |-> [i \in 1..Len(rows) |-> rows[i].x_coeffs[c]]],
         y_coeffs |-> [c \in 1..4 |-> [i \in 1..Len(rows) |-> rows[i].y_coeffs[c]]],
         p_coeffs |-> [c \in 1..3 |-> [i \in 1..Len(rows) |-> rows[i].p_coeffs[c]]]]

\* a fit that keeps the p coefficients of an earlier fit
fit_keeps_p_coeffs(self, goal_n5, factors_n2) ==
    LET new == FitAttrs(self, goal_n5, factors_n2)
    IN  SetAttrs(self, IF "p_coeffs" \in DOMAIN self
                       THEN [goal_n5 |-> new.goal_n5, x_coeffs |-> new.x_coeffs,
                             y_coeffs |-> new.y_coeffs]
                       ELSE new)
fit(self, goal_n5, factors_n2) == SetAttrs(self, FitAttrs(self, goal_n5, factors_n2))

\* tf.reduce_max(ts, axis=1) of one row, and ts / that
RECURSIVE ReduceMax(_, _)
ReduceMax(row, j) ==
    IF j = 1 THEN row[1]
    ELSE LET m == ReduceMax(row, j - 1) IN IF QLess(m, row[j]) THEN row[j] ELSE m
RECURSIVE NormalizeRow(_, _, _)
NormalizeRow(row, max, j) ==
    IF j = 0 THEN <<>> ELSE Append(NormalizeRow(row, max, j - 1), QDiv(row[j], max))
RECURSIVE NormalizeRows(_, _)
NormalizeRows(ts, i) ==
    IF i = 0 THEN <<>>
    ELSE Append(NormalizeRows(ts, i - 1),
                NormalizeRow(ts[i], ReduceMax(ts[i], Len(ts[i])), Len(ts[i])))
Normalize(ts) == NormalizeRows(ts, Len(ts))

\* everything _eval_spline computes at one normalized time t of row i
EvalPoint(self, i, t) ==
    LET a1 == self.x_coeffs[1][i]
        b1 == self.x_coeffs[2][i]
        c1 == self.x_coeffs[3][i]
        d1 == self.x_coeffs[4][i]
        a2 == self.y_coeffs[1][i]
        b2 == self.y_coeffs[2][i]
        c2 == self.y_coeffs[3][i]
        d2 == self.y_coeffs[4][i]
        a3 == self.p_coeffs[1][i]
        b3 == self.p_coeffs[2][i]
        c3 == self.p_coeffs[3][i]
        t2 == QMul(t, t)
        t3 == QMul(QMul(t, t), t)
        ps == QAdd(QAdd(QMul(a3, t3), QMul(b3, t2)), QMul(c3, t))
        p2 == QMul(ps, ps)
        p3 == QMul(QMul(ps, ps), ps)
        xs == QAdd(QAdd(QAdd(QMul(a1, p3), QMul(b1, p2)), QMul(c1, ps)), d1)
        ys == QAdd(QAdd(QMul(a2, p3), QMul(b2, p2)), d2)
        ps_dot == QAdd(QAdd(QMul(QMul(QI(3), a3), t2), QMul(QMul(QI(2), b3), t)), c3)
        xs_dot == QAdd(QAdd(QMul(QMul(QI(3), a1), p2), QMul(QMul(QI(2), b1), ps)), c1)
        ys_dot == QAdd(QAdd(QMul(QMul(QI(3), a2), p2), QMul(QMul(QI(2), b2), ps)), c2)
        ps_ddot == QAdd(QMul(QMul(QI(6), a3), t), QMul(QI(2), b3))
        xs_ddot == QAdd(QMul(QMul(QI(6), a1), ps), QMul(QI(2), b1))
        ys_ddot == QAdd(QMul(QMul(QI(6), a2), ps), QMul(QI(2), b2))
    IN  [ps |-> ps, xs |-> xs, ys |-> ys,
         ps_dot |-> ps_dot, xs_dot |-> xs_dot, ys_dot |-> ys_dot,
         ps_ddot |-> ps_ddot, xs_ddot |-> xs_ddot, ys_ddot |-> ys_ddot,
         heading_nk |-> tf_atan2(ys_dot, xs_dot)]

\* what the calculate_speeds branch computes from the values P of EvalPoint
SpeedsPoint(P) ==
    LET speed_ps_nk == tf_sqrt(QAdd(QSquare(P.xs_dot), QSquare(P.ys_dot)))
        speed_nk == SurdTimes(speed_ps_nk, P.ps_dot)
        ps_sq == QSquare(P.ps_dot)
        num_l == QMul(QAdd(QMul(P.ys_ddot, ps_sq), QMul(P.ys_dot, P.ps_ddot)),
                      QMul(P.xs_dot, P.ps_dot))
        num_r == QMul(QAdd(QMul(P.xs_ddot, ps_sq), QMul(P.xs_dot, P.ps_ddot)),
                      QMul(P.ys_dot, P.ps_dot))
    IN  [speed_ps_nk |-> speed_ps_nk, speed_nk |-> speed_nk,
         angular_speed_nk |-> QDiv(QAdd(num_l, num_r), SurdSquare(speed_nk))]

\* the values P of EvalPoint, with those of SpeedsPoint when asked for
PointValues(P, calculate_speeds) ==
    [pose |-> P, speeds |-> IF calculate_speeds THEN SpeedsPoint(P) ELSE <<>>]

\* PointValues at the first j times of row i
RECURSIVE EvalRow(_, _, _, _, _)
EvalRow(self, i, row, j, calculate_speeds) ==
    IF j = 0 THEN <<>>
    ELSE Append(EvalRow(self, i, row, j - 1, calculate_speeds),
                PointValues(EvalPoint(self, i, row[j]), calculate_speeds))
RECURSIVE EvalRows(_, _, _, _)
EvalRows(self, ts, i, calculate_speeds) ==
    IF i = 0 THEN <<>>
    ELSE Append(EvalRows(self, ts, i - 1, calculate_speeds),
                EvalRow(self, i, ts[i], Len(ts[i]), calculate_speeds))

\* the (n, k, 1) tensor of the value f of each point
Channel(pts, part, f) ==
    [i \in 1..Len(pts) |-> [j \in 1..Len(pts[i]) |-> pts[i][j][part][f]]]
\* tf.stack([xs, ys], axis=2)
StackPosition(pts) ==
    [i \in 1..Len(pts) |->
        [j \in 1..Len(pts[i]) |-> <<pts[i][j].pose.xs, pts[i][j].pose.ys>>]]
\* the attributes assigned from the point values pts
AssignedAttrs(pts, calculate_speeds) ==
    LET pose == [_position_nk2 |-> StackPosition(pts),
                 _heading_nk1 |-> Channel(pts, "pose", "heading_nk")]
        speeds == [_speed_ps_nk1 |-> Channel(pts, "speeds", "speed_ps_nk"),
                   _speed_nk1 |-> Channel(pts, "speeds", "speed_nk"),
                   _angular_speed_nk1 |-> Channel(pts, "speeds", "angular_speed_nk")]
    IN  IF calculate_speeds THEN SetAttrs(pose, speeds) ELSE pose

\* the attributes _eval_spline assigns, ts normalized
EvalAttrs(self, ts, calculate_speeds) ==
    AssignedAttrs(EvalRows(self, ts, Len(ts), calculate_speeds), calculate_speeds)

\* reading self.x_coeffs on an object that was never fit raises AttributeError
eval_spline(self, ts, calculate_speeds) ==
    IF "x_coeffs" \notin DOMAIN self THEN Raised("AttributeError")
    ELSE Returned(SetAttrs(self, EvalAttrs(self, Normalize(ts), calculate_speeds)))

(***************************************************************************)
(* Inputs of the dynamics.                                                 *)
(***************************************************************************)
BoundVals == (-MaxBound)..MaxBound
BoundPairs == {b \in BoundVals \X BoundVals : b[1] <= b[2]}
CmdVals == (-MaxCmd)..MaxCmd
DtVals == {1, 2}
PosVals == {-1, 2}
AngleVals == {-1, 0, 1, 2, 5}

NoSpline == [unused |-> TRUE]
NoCall == [op |-> "none"]

\* sequences over S of length lo..hi
SeqsOf(S, lo, hi) == UNION {[1..m -> S] : m \in lo..hi}

\* state sequences of k steps: the car at <<j, -j>> heading t + j
StateSeq(k, t) == [j \in 1..k |-> <<j, -j, t + j>>]
\* control steps used in control sequences
CtrlSteps == {<<c, -c>> : c \in {-MaxCmd, 0, 1, MaxCmd}}

InitDyn ==
    /\ \E dt \in DtVals, vb \in BoundPairs, wb \in BoundPairs :
          model = [dt |-> dt, v_bounds |-> vb, w_bounds |-> wb]
    /\ spline = NoSpline
    /\ call = NoCall

Simulate_v1 ==
    /\ call.op = "none"
    /\ \E x \in PosVals, y \in PosVals, t \in AngleVals, v \in CmdVals, w \in CmdVals :
        /\ call' = [op |-> "v1.simulate", x_nk3 |-> << <<<<x, y, t>>>> >>,
                    u_nk2 |-> << <<<<v, w>>>> >>,
                    ret |-> Dubins_v1_simulate(<< <<<<x, y, t>>>> >>, << <<<<v, w>>>> >>)]
        /\ UNCHANGED <<model, spline>>

Simulate_v2 ==
    /\ call.op = "none"
    /\ \E x \in PosVals, y \in PosVals, t \in AngleVals, v \in CmdVals, w \in CmdVals :
        /\ call' = [op |-> "v2.simulate", x_nk3 |-> << <<<<x, y, t>>>> >>,
                    u_nk2 |-> << <<<<v, w>>>> >>,
                    ret |-> Dubins_v2_simulate(<< <<<<x, y, t>>>> >>, << <<<<v, w>>>> >>)]
        /\ UNCHANGED <<model, spline>>

\* a one-step trajectory whose speed channel holds the command <<v, w>>
OneStep(t, v, w) ==
    Trajectory(model.dt, 1, 1, << <<<<0, 0>>>> >>, << <<t>> >>, << <<v>> >>, << <<w>> >>)

JacU_v1 ==
    /\ call.op = "none"
    /\ \E t \in AngleVals, v \in CmdVals, w \in CmdVals :
        /\ call' = [op |-> "v1.jac_u", trajectory |-> OneStep(t, v, w),
                    ret |-> Dubins_v1_jac_u(OneStep(t, v, w))]
        /\ UNCHANGED <<model, spline>>

JacU_v2 ==
    /\ call.op = "none"
    /\ \E t \in AngleVals, v \in CmdVals, w \in CmdVals :
        /\ call' = [op |-> "v2.jac_u", trajectory |-> OneStep(t, v, w),
                    ret |-> Dubins_v2_jac_u(OneStep(t, v, w))]
        /\ UNCHANGED <<model, spline>>

S1Prime ==
    /\ call.op = "none"
    /\ \E v \in CmdVals :
        /\ call' = [op |-> "v2.s1_prime", vtilde |-> v, ret |-> s1_prime(v)]
        /\ UNCHANGED <<model, spline>>

S2Prime ==
    /\ call.op = "none"
    /\ \E w \in CmdVals :
        /\ call' = [op |-> "v2.s2_prime", wtilde |-> w, ret |-> s2_prime(w)]
        /\ UNCHANGED <<model, spline>>

Assemble_v1 ==
    /\ call.op = "none"
    /\ \E k \in 1..MaxK, t \in {0, 1}, zero_pad_u \in BOOLEAN :
      \E u \in SeqsOf(CtrlSteps, 0, k + 1) :
        LET r == Dubins_v1_assemble_trajectory(<<StateSeq(k, t)>>, <<u>>, zero_pad_u)
        IN  /\ call' = [op |-> "v1.assemble_trajectory", x_nk3 |-> <<StateSeq(k, t)>>,
                        u_nk2 |-> <<u>>, pad |-> IF zero_pad_u THEN "zero" ELSE "None",
                        raised |-> r.raised, ret |-> r.ret]
            /\ UNCHANGED <<model, spline>>

Assemble_v2 ==
    /\ call.op = "none"
    /\ \E k \in 1..MaxK, t \in {0, 1}, pad_mode \in {"None", "zero", "repeat", "edge"} :
      \E u \in SeqsOf(CtrlSteps, 0, k + 1) :
        LET r == Dubins_v2_assemble_trajectory(<<StateSeq(k, t)>>, <<u>>, pad_mode)
        IN  /\ call' = [op |-> "v2.assemble_trajectory", x_nk3 |-> <<StateSeq(k, t)>>,
                        u_nk2 |-> <<u>>, pad |-> pad_mode,
                        raised |-> r.raised, ret |-> r.ret]
            /\ UNCHANGED <<model, spline>>

\* jac_u on the trajectory Dubins_v2.assemble_trajectory returned, when its
\* control channels have the k steps of its states; the record keeps the
\* states and the raw controls the trajectory was assembled from
JacU_Assembled ==
    /\ call.op = "v2.assemble_trajectory"
    /\ call.raised = "none"
    /\ Len(call.ret.speed_nk1[1]) = call.ret.k
    /\ call' = [op |-> "v2.jac_u", trajectory |-> call.ret,
                ret |-> Dubins_v2_jac_u(call.ret),
                x_nk3 |-> call.x_nk3, u_nk2 |-> call.u_nk2, pad |-> call.pad]
    /\ UNCHANGED <<model, spline>>

\* The caller takes the result; the next call can be made.
Return ==
    /\ call.op # "none"
    /\ call' = NoCall
    /\ UNCHANGED <<model, spline>>

NextDyn ==
    \/ Simulate_v1
    \/ Simulate_v2
    \/ JacU_v1
    \/ JacU_v2
    \/ S1Prime
    \/ S2Prime
    \/ Assemble_v1
    \/ Assemble_v2
    \/ JacU_Assembled
    \/ Return

SpecDyn == InitDyn /\ [][NextDyn]_vars

(***************************************************************************)
(* The frame transforms, called on reference states and trajectories.      *)
(***************************************************************************)
FrameAngles == {-1, 2, 5}
\* a reference state: one step, the car at <<x, y>> heading t
RefState(x, y, t) ==
    Construct("State", 1, 1, 1, << <<<<x, y>>>> >>, << <<1>> >>, << <<0>> >>,
              << <<t>> >>, << <<-1>> >>, << <<0>> >>)
\* a reference of the given rows of <<x, y, heading>> steps
RefTensor(rows) ==
    Construct(IF Len(rows[1]) = 1 THEN "State" ELSE "Trajectory", 1, Len(rows), Len(rows[1]),
              [i \in 1..Len(rows) |-> [j \in 1..Len(rows[i]) |-> <<rows[i][j][1], rows[i][j][2]>>]],
              [i \in 1..Len(rows) |-> [j \in 1..Len(rows[i]) |-> 1]],
              Zeros_nk1(Len(rows), Len(rows[1])),
              [i \in 1..Len(rows) |-> [j \in 1..Len(rows[i]) |-> rows[i][j][3]]],
              [i \in 1..Len(rows) |-> [j \in 1..Len(rows[i]) |-> -1]],
              Zeros_nk1(Len(rows), Len(rows[1])))
\* references of one row and two or three steps, and of two rows of one step
WideRefs ==
    {RefTensor(<< <<<<1, -2, 1>>, <<5, 6, 2>>>> >>),
     RefTensor(<< <<<<0, 1, -1>>, <<2, 2, 5>>, <<-1, 0, 0>>>> >>),
     RefTensor(<< <<<<1, -2, 1>>>>, <<<<5, 6, 2>>>> >>)}
RefStates ==
    {RefState(x, y, t) : x \in PosVals, y \in PosVals, t \in AngleVals} \cup WideRefs
\* a trajectory of one row through the given <<x, y, heading>> steps
FrameTraj(steps) ==
    Construct(IF Len(steps) = 1 THEN "State" ELSE "Trajectory", 1, 1, Len(steps),
              <<[j \in 1..Len(steps) |-> <<steps[j][1], steps[j][2]>>]>>,
              <<[j \in 1..Len(steps) |-> j]>>, Zeros_nk1(1, Len(steps)),
              <<[j \in 1..Len(steps) |-> steps[j][3]]>>,
              <<[j \in 1..Len(steps) |-> -j]>>, Zeros_nk1(1, Len(steps)))
\* trajectories of two rows of two steps
FrameBatches ==
    {RefTensor(<< <<<<3, 4, 2>>, <<0, 0, -1>>>>, <<<<7, 7, 1>>, <<-2, 1, h>>>> >>) :
        h \in FrameAngles}
FrameTrajs ==
    {FrameTraj(st) : st \in SeqsOf(PosVals \X PosVals \X FrameAngles, 1, MaxK)}
        \cup FrameBatches

InitFrame ==
    /\ model = [dt |-> 1, v_bounds |-> <<0, 1>>, w_bounds |-> <<-1, 1>>]
    /\ spline = NoSpline
    /\ call = NoCall

ToEgocentric ==
    /\ call.op = "none"
    /\ \E ref_state \in RefStates, traj \in FrameTrajs :
        \E r \in {to_egocentric_coordinates(ref_state, traj)} :
          call' = [op |-> "to_egocentric_coordinates", ref_state |-> ref_state,
                   traj |-> traj, raised |-> r.raised, ret |-> r.ret]
    /\ UNCHANGED <<model, spline>>

\* to_world_coordinates on the trajectory to_egocentric_coordinates returned,
\* with any reference state; the record keeps where the trajectory came from
ToWorld ==
    /\ call.op = "to_egocentric_coordinates"
    /\ call.raised = "none"
    /\ \E ref_state \in RefStates :
        \E r \in {to_world_coordinates(ref_state, call.ret)} :
          call' = [op |-> "to_world_coordinates", ref_state |-> ref_state,
                   traj |-> call.ret, raised |-> r.raised, ret |-> r.ret,
                   ego_ref_state |-> call.ref_state, ego_traj |-> call.traj]
    /\ UNCHANGED <<model, spline>>

NextFrame ==
    \/ ToEgocentric
    \/ ToWorld
    \/ Return

SpecFrame == InitFrame /\ [][NextFrame]_vars

(***************************************************************************)
(* The spline, fit once and evaluated once on a wide set of inputs.        *)
(***************************************************************************)
\* a start_n5 / goal_n5 row: position, heading in quarter turns, speed, w
Row5(pos, t, v) == <<QI(pos[1]), QI(pos[2]), t, QI(v), QI(0)>>
QuarterTurns == {-1, 0, 1, 2}
SpeedVals == 0..MaxSpeed
FactorVals == {1, 2}
TimeVals == {0, 1, 2}
StartRows == {Row5(pos, t, v) : pos \in {<<0, 0>>, <<1, -1>>}, t \in QuarterTurns,
                                v \in SpeedVals}
GoalRows == {Row5(pos, t, v) : pos \in {<<2, 0>>, <<-1, 2>>}, t \in QuarterTurns,
                               v \in SpeedVals}
\* factors_n2: None, written <<>>, or one row of two positive factors
FactorRows == {<<QI(f1), QI(f2)>> : f1 \in FactorVals, f2 \in FactorVals}
\* the goals the heuristic factors are defined on: a rational, nonzero distance
HasRationalNorm(row) == ISqrt(row[1][1] * row[1][1] + row[2][1] * row[2][1]) > 0
\* query times of one row, not all zero
TimeRows(k) == {r \in [1..k -> TimeVals] : \E j \in 1..k : r[j] > 0}
AsRationals(r) == [j \in 1..Len(r) |-> QI(r[j])]

InitSplineOnce ==
    /\ model = [dt |-> 1, v_bounds |-> <<0, 1>>, w_bounds |-> <<-1, 1>>]
    /\ \E start \in StartRows : spline = Spline3rdOrder_init(SplineK, <<start>>)
    /\ call = NoCall

FitCall(goal_n5, factors_n2) ==
    /\ spline' = fit(spline, goal_n5, factors_n2)
    /\ call' = [op |-> "fit", goal_n5 |-> goal_n5, factors_n2 |-> factors_n2,
                raised |-> "none"]
    /\ UNCHANGED model

EvalCall(ts, calculate_speeds) ==
    \E r \in {eval_spline(spline, ts, calculate_speeds)} :
        /\ spline' = IF r.raised = "none" THEN r.ret ELSE spline
        /\ call' = [op |-> "eval_spline", ts |-> ts,
                    calculate_speeds |-> calculate_speeds, raised |-> r.raised]
        /\ UNCHANGED model

FitOnce ==
    /\ call.op = "none"
    /\ \E goal \in GoalRows :
          \/ \E factors \in FactorRows : FitCall(<<goal>>, <<factors>>)
          \/ HasRationalNorm(goal) /\ FitCall(<<goal>>, <<>>)

EvalOnce ==
    /\ call.op = "fit"
    /\ \E r \in TimeRows(SplineK), calculate_speeds \in BOOLEAN :
          EvalCall(<<AsRationals(r)>>, calculate_speeds)

NextSplineOnce ==
    \/ FitOnce
    \/ EvalOnce

SpecSplineOnce == InitSplineOnce /\ [][NextSplineOnce]_vars

(***************************************************************************)
(* The spline as an object: any sequence of fit and eval_spline calls.     *)
(***************************************************************************)
SmallStarts == {Row5(<<0, 0>>, 0, 1), Row5(<<1, -1>>, 1, 0)}
SmallGoals == {Row5(<<2, 0>>, 0, 1), Row5(<<0, 1>>, 1, 0)}
SmallFactors == {<<>>, << <<QI(1), QI(2)>> >>}
SmallTimes == {<<0, 1>>, <<1, 2>>}

InitSpline ==
    /\ model = [dt |-> 1, v_bounds |-> <<0, 1>>, w_bounds |-> <<-1, 1>>]
    /\ \E start \in SmallStarts : spline = Spline3rdOrder_init(2, <<start>>)
    /\ call = NoCall

Fit ==
    \E goal \in SmallGoals, factors_n2 \in SmallFactors : FitCall(<<goal>>, factors_n2)

EvalSpline ==
    \E r \in SmallTimes, calculate_speeds \in BOOLEAN :
        EvalCall(<<AsRationals(r)>>, calculate_speeds)

NextSpline ==
    \/ Fit
    \/ EvalSpline

SpecSpline == InitSpline /\ [][NextSpline]_vars

(***************************************************************************)
(* Claims about the dynamics, checked under SpecDyn.                       *)
(***************************************************************************)
\* the saturation written out by cases: the violated bound, or the command
Saturated(c, bounds) ==
    IF c < bounds[1] THEN bounds[1] ELSE IF c > bounds[2] THEN bounds[2] ELSE c
Inside(c, bounds) == bounds[1] <= c /\ c <= bounds[2]
StrictlyInside(c, bounds) == bounds[1] < c /\ c < bounds[2]
StrictlyOutside(c, bounds) == c < bounds[1] \/ c > bounds[2]

\* C1: Dubins_v2.simulate returns x + v cos(theta) dt, y + v sin(theta) dt,
\* theta + w dt with v and w the commands saturated to their intervals (a
\* command outside acts with the violated bound), and with both commands
\* inside their intervals it returns what Dubins_v1.simulate returns.
C1_SimulateSaturates ==
    call.op = "v2.simulate" =>
        LET x == call.x_nk3[1][1][1]
            y == call.x_nk3[1][1][2]
            theta == call.x_nk3[1][1][3]
            v == Saturated(call.u_nk2[1][1][1], model.v_bounds)
            w == Saturated(call.u_nk2[1][1][2], model.w_bounds)
        IN  /\ call.ret[1][1] = <<x + v * Cos(theta) * model.dt,
                                  y + v * Sin(theta) * model.dt,
                                  theta + w * model.dt>>
            /\ (Inside(call.u_nk2[1][1][1], model.v_bounds)
                  /\ Inside(call.u_nk2[1][1][2], model.w_bounds))
               => call.ret = Dubins_v1_simulate(call.x_nk3, call.u_nk2)

\* a speed command above v_max and an angular speed command below w_min,
\* on a heading along which the speed moves the car
C1_Witness ==
    /\ call.op = "v2.simulate"
    /\ call.u_nk2[1][1][1] > model.v_bounds[2]
    /\ call.u_nk2[1][1][2] < model.w_bounds[1]
    /\ model.v_bounds[2] # 0
    /\ call.ret[1][1] # call.x_nk3[1][1]

\* C2: in Dubins_v2.jac_u the d/dv column is (0,0,0) for a speed command
\* strictly outside [v_min, v_max] and the d/dw column is (0,0,0) for an
\* angular speed command strictly outside [w_min, w_max]; for a command
\* strictly inside, the column is the one Dubins_v1.jac_u returns.
C2_JacUColumns ==
    call.op = "v2.jac_u" =>
        LET vtilde == call.trajectory.speed_nk1[1][1]
            wtilde == call.trajectory.angular_speed_nk1[1][1]
            B == call.ret[1][1]
            B1 == Dubins_v1_jac_u(call.trajectory)[1][1]
        IN  /\ StrictlyOutside(vtilde, model.v_bounds) => B[1] = <<0, 0, 0>>
            /\ StrictlyOutside(wtilde, model.w_bounds) => B[2] = <<0, 0, 0>>
            /\ StrictlyInside(vtilde, model.v_bounds) => B[1] = B1[1]
            /\ StrictlyInside(wtilde, model.w_bounds) => B[2] = B1[2]

\* a speed command outside and an angular speed command strictly inside
C2_Witness ==
    /\ call.op = "v2.jac_u"
    /\ StrictlyOutside(call.trajectory.speed_nk1[1][1], model.v_bounds)
    /\ StrictlyInside(call.trajectory.angular_speed_nk1[1][1], model.w_bounds)
    /\ call.ret[1][1][1] = <<0, 0, 0>>
    /\ call.ret[1][1][2] = <<0, 0, model.dt>>

IsPrimeCall == call.op \in {"v2.s1_prime", "v2.s2_prime"}
PrimeInput == IF call.op = "v2.s1_prime" THEN call.vtilde ELSE call.wtilde
PrimeBounds == IF call.op = "v2.s1_prime" THEN model.v_bounds ELSE model.w_bounds

\* C3 as stated: the clip derivative s1_prime, s2_prime is 1 only strictly
\* inside the interval, and 0 outside it or exactly at bound_min or bound_max.
C3_Original ==
    IsPrimeCall =>
        call.ret = IF StrictlyInside(PrimeInput, PrimeBounds) THEN 1 ELSE 0

\* C3 amended: the clip derivative s1_prime, s2_prime is 1 on the closed
\* interval, the two bounds included, and 0 only strictly outside it.
C3_PrimeClosedInterval ==
    IsPrimeCall =>
        call.ret = IF PrimeInput < PrimeBounds[1] \/ PrimeInput > PrimeBounds[2]
                   THEN 0 ELSE 1

\* the derivative taken exactly at the upper bound of the angular speed
C3_Witness ==
    /\ call.op = "v2.s2_prime"
    /\ call.wtilde = model.w_bounds[2]
    /\ model.w_bounds[1] < model.w_bounds[2]
    /\ call.ret = 1

IsAssembleCall == call.op \in {"v1.assemble_trajectory", "v2.assemble_trajectory"}
\* the calls C4 is about: zero padding of k-1 controls
IsZeroPadCall ==
    /\ IsAssembleCall
    /\ call.pad = "zero"
    /\ Shape1(call.u_nk2) = Shape1(call.x_nk3) - 1

\* the first k-1 steps hold the supplied controls, saturated in Dubins_v2
HoldsSuppliedControls ==
    \A j \in 1..Shape1(call.u_nk2) :
        IF call.op = "v1.assemble_trajectory"
        THEN /\ call.ret.speed_nk1[1][j] = call.u_nk2[1][j][1]
             /\ call.ret.angular_speed_nk1[1][j] = call.u_nk2[1][j][2]
        ELSE /\ call.ret.speed_nk1[1][j] = Saturated(call.u_nk2[1][j][1], model.v_bounds)
             /\ call.ret.angular_speed_nk1[1][j] =
                    Saturated(call.u_nk2[1][j][2], model.w_bounds)

\* C4 as stated: with the zero-pad policy on k states and k-1 controls both
\* variants return k steps whose final speed and final angular speed are
\* exactly zero, for every bounds v_min <= v_max, w_min <= w_max, and whose
\* first k-1 steps hold the supplied controls.
C4_Original ==
    IsZeroPadCall =>
        LET k == Shape1(call.x_nk3)
        IN  /\ call.raised = "none"
            /\ call.ret.k = k
            /\ Len(call.ret.speed_nk1[1]) = k
            /\ Len(call.ret.angular_speed_nk1[1]) = k
            /\ call.ret.speed_nk1[1][k] = 0
            /\ call.ret.angular_speed_nk1[1][k] = 0
            /\ HoldsSuppliedControls

\* C4 amended: the final step holds the zero control as Dubins_v1 stores it,
\* exactly zero, and as Dubins_v2 stores it, saturated: zero when the
\* interval holds 0, else the bound nearest to 0.
C4_ZeroPadFinalStep ==
    IsZeroPadCall =>
        LET k == Shape1(call.x_nk3)
            v1 == call.op = "v1.assemble_trajectory"
        IN  /\ call.raised = "none"
            /\ call.ret.k = k
            /\ Len(call.ret.speed_nk1[1]) = k
            /\ Len(call.ret.angular_speed_nk1[1]) = k
            /\ call.ret.speed_nk1[1][k] =
                   IF v1 THEN 0 ELSE Saturated(0, model.v_bounds)
            /\ call.ret.angular_speed_nk1[1][k] =
                   IF v1 THEN 0 ELSE Saturated(0, model.w_bounds)
            /\ HoldsSuppliedControls

\* Dubins_v2 pads one control to two steps under bounds that hold no zero speed
C4_Witness ==
    /\ IsZeroPadCall
    /\ call.op = "v2.assemble_trajectory"
    /\ Shape1(call.x_nk3) = 2
    /\ call.raised = "none"
    /\ model.v_bounds[1] > 0
    /\ call.ret.speed_nk1[1][2] = model.v_bounds[1]
    /\ call.ret.angular_speed_nk1[1][2] = Saturated(0, model.w_bounds)

\* C9: assemble_trajectory raises, and returns no trajectory, when the control
\* length differs from k with no pad policy, or is neither k-1 nor k with a
\* zero-pad or repeat-last policy; every trajectory it returns has control
\* channels of exactly k steps.
C9_LengthMismatchFails ==
    IsAssembleCall =>
        LET k == Shape1(call.x_nk3)
            len == Shape1(call.u_nk2)
        IN  /\ (call.pad = "None" /\ len # k) => call.raised # "none"
            /\ (call.pad \in {"zero", "repeat"} /\ len # k - 1 /\ len # k)
                   => call.raised # "none"
            /\ call.raised = "none" =>
                   /\ Len(call.ret.speed_nk1[1]) = k
                   /\ Len(call.ret.angular_speed_nk1[1]) = k

(***************************************************************************)
(* Claims about the frame transforms, checked under SpecFrame.             *)
(***************************************************************************)
\* a reference that fits the trajectory T: one row or the rows of T, and one
\* step or the steps of T
RefFits(ref_state, T) ==
    /\ Len(RefPosition(ref_state)) \in {1, Len(T.position_nk2)}
    /\ Shape1(RefPosition(ref_state)) \in {1, Shape1(T.position_nk2)}

\* C6: to_world_coordinates(ref, to_egocentric_coordinates(ref, T)) has the
\* position of T and, at every row and step, a heading congruent to the
\* heading of T modulo a full turn, for every reference that fits T.
C6_RoundTrip ==
    (/\ call.op = "to_world_coordinates"
     /\ call.ref_state = call.ego_ref_state
     /\ RefFits(call.ref_state, call.ego_traj)) =>
        /\ call.raised = "none"
        /\ call.ret.position_nk2 = call.ego_traj.position_nk2
        /\ Len(call.ret.heading_nk1) = call.ego_traj.n
        /\ \A i \in 1..call.ego_traj.n :
               /\ Len(call.ret.heading_nk1[i]) = call.ego_traj.k
               /\ \A j \in 1..call.ego_traj.k :
                      (call.ret.heading_nk1[i][j] - call.ego_traj.heading_nk1[i][j]) % 4 = 0

\* a round trip through a turned and shifted frame that moved the positions
\* in between, on a trajectory whose heading lies outside the wrapped range
C6_Witness ==
    /\ call.op = "to_world_coordinates"
    /\ call.ref_state = call.ego_ref_state
    /\ call.raised = "none"
    /\ Shape1(RefHeading(call.ref_state)) = 2
    /\ RefHeading(call.ref_state)[1][1] % 4 = 1
    /\ RefHeading(call.ref_state)[1][2] % 4 = 2
    /\ call.ego_traj.k = 2
    /\ call.traj.position_nk2 # call.ego_traj.position_nk2
    /\ call.ego_traj.heading_nk1[1][1] = 5
    /\ call.ret.heading_nk1[1][1] = 1

\* a Dubins_v2.assemble_trajectory call that returned a trajectory
IsAssembled_v2 == call.op = "v2.assemble_trajectory" /\ call.raised = "none"

\* C11: every trajectory Dubins_v2.assemble_trajectory returns, for any
\* controls and any pad mode, stores at every step a speed in [v_min, v_max]
\* and an angular speed in [w_min, w_max], and its position and heading are
\* the supplied states unchanged.
C11_StoredControlsBounded ==
    IsAssembled_v2 =>
        /\ \A j \in 1..Len(call.ret.speed_nk1[1]) :
               Inside(call.ret.speed_nk1[1][j], model.v_bounds)
        /\ \A j \in 1..Len(call.ret.angular_speed_nk1[1]) :
               Inside(call.ret.angular_speed_nk1[1][j], model.w_bounds)
        /\ Len(call.ret.position_nk2[1]) = Shape1(call.x_nk3)
        /\ Len(call.ret.heading_nk1[1]) = Shape1(call.x_nk3)
        /\ \A j \in 1..Shape1(call.x_nk3) :
               /\ call.ret.position_nk2[1][j] = <<call.x_nk3[1][j][1], call.x_nk3[1][j][2]>>
               /\ call.ret.heading_nk1[1][j] = call.x_nk3[1][j][3]

\* the repeat policy on two states and one control, its speed above v_max and
\* its angular speed below w_min: both steps hold the violated bounds
C11_Witness ==
    /\ IsAssembled_v2
    /\ call.pad = "repeat"
    /\ Shape1(call.x_nk3) = 2
    /\ Shape1(call.u_nk2) = 1
    /\ call.u_nk2[1][1][1] > model.v_bounds[2]
    /\ call.u_nk2[1][1][2] < model.w_bounds[1]
    /\ call.ret.speed_nk1[1] = <<model.v_bounds[2], model.v_bounds[2]>>
    /\ call.ret.angular_speed_nk1[1] = <<model.w_bounds[1], model.w_bounds[1]>>

\* a jac_u call on a trajectory that Dubins_v2.assemble_trajectory returned
IsJacUOfAssembled == call.op = "v2.jac_u" /\ "u_nk2" \in DOMAIN call

\* C12: for assemble_trajectory(states, raw controls) followed by jac_u on
\* the returned trajectory in Dubins_v2, the control columns are scaled by
\* the clip derivative at the raw control passed to assemble_trajectory: for
\* a raw command strictly outside its interval the jac_u column is zero.
C12_JacUAtRawControl ==
    IsJacUOfAssembled =>
        \A j \in 1..Shape1(call.u_nk2) :
            /\ call.ret[1][j][1] =
                   <<s1_prime(call.u_nk2[1][j][1]) * Cos(call.x_nk3[1][j][3]) * model.dt,
                     s1_prime(call.u_nk2[1][j][1]) * Sin(call.x_nk3[1][j][3]) * model.dt, 0>>
            /\ call.ret[1][j][2] = <<0, 0, s2_prime(call.u_nk2[1][j][2]) * model.dt>>
            /\ StrictlyOutside(call.u_nk2[1][j][1], model.v_bounds)
                   => call.ret[1][j][1] = <<0, 0, 0>>
            /\ StrictlyOutside(call.u_nk2[1][j][2], model.w_bounds)
                   => call.ret[1][j][2] = <<0, 0, 0>>

(***************************************************************************)
(* Claims about one fit and one evaluation, checked under SpecSplineOnce.  *)
(***************************************************************************)
\* an evaluation that returned, with speeds requested
EvaluatedWithSpeeds ==
    call.op = "eval_spline" /\ call.raised = "none" /\ call.calculate_speeds
\* the normalized query time of step j
Tau(j) == Normalize(call.ts)[1][j]
\* a speed that is the rational v
SpeedIs(s, v) == s = [coef |-> v, rad |-> QI(1)]

\* C5: after fit with positive factors the spline evaluated at normalized
\* time 0 gives position (x0, y0), heading theta0 and speed v0, and at
\* normalized time 1 position (xg, yg), heading thetag and speed vg.
C5_BoundaryConditions ==
    EvaluatedWithSpeeds =>
        \A j \in 1..Len(call.ts[1]) :
            LET start == spline.start_n5[1]
                goal == spline.goal_n5[1]
            IN  /\ Tau(j) = QI(0) =>
                      /\ spline._position_nk2[1][j] = <<start[1], start[2]>>
                      /\ spline._heading_nk1[1][j] = AngleOf(start[3])
                      /\ SpeedIs(spline._speed_nk1[1][j], start[4])
                /\ Tau(j) = QI(1) =>
                      /\ spline._position_nk2[1][j] = <<goal[1], goal[2]>>
                      /\ spline._heading_nk1[1][j] = AngleOf(goal[3])
                      /\ SpeedIs(spline._speed_nk1[1][j], goal[4])

\* C7: the angular speed stored at each query time is
\* (y'' x' - x'' y') / speed^2 with x', y', x'', y'' the derivatives of x and
\* y in normalized time (chain rule through p) and speed the true speed.
C7_AngularSpeedIsCurvature ==
    EvaluatedWithSpeeds =>
        \A j \in 1..Len(call.ts[1]) :
            LET P == EvalPoint(spline, 1, Tau(j))
                dx == QMul(P.xs_dot, P.ps_dot)
                dy == QMul(P.ys_dot, P.ps_dot)
                ddx == QAdd(QMul(P.xs_ddot, QSquare(P.ps_dot)), QMul(P.xs_dot, P.ps_ddot))
                ddy == QAdd(QMul(P.ys_ddot, QSquare(P.ps_dot)), QMul(P.ys_dot, P.ps_ddot))
                speed2 == QAdd(QSquare(dx), QSquare(dy))
            IN  speed2 # QI(0) =>
                    spline._angular_speed_nk1[1][j] =
                        QDiv(QSub(QMul(ddy, dx), QMul(ddx, dy)), speed2)

\* C8: when the true speed at a query time is exactly zero the evaluation
\* guards the division: the angular speed stored for that time is a defined
\* (finite) value.
C8_ZeroSpeedGuarded ==
    EvaluatedWithSpeeds =>
        \A j \in 1..Len(call.ts[1]) :
            SpeedIs(spline._speed_nk1[1][j], QI(0)) =>
                IsFinite(spline._angular_speed_nk1[1][j])

(***************************************************************************)
(* Claims about the spline object, checked under SpecSpline.               *)
(***************************************************************************)
CoeffAttrs == {"x_coeffs", "y_coeffs", "p_coeffs"}
Unfit(self) == CoeffAttrs \cap DOMAIN self = {}
IsFit(self) == CoeffAttrs \subseteq DOMAIN self
Coeffs(self) == [a \in CoeffAttrs \cap DOMAIN self |-> self[a]]

\* what one call does to the coefficients; the coefficients derived from a
\* goal and factors are those a fit of a new object with this start gives
C10_Step ==
    /\ (call'.op = "eval_spline" /\ Unfit(spline)) =>
           call'.raised = "AttributeError" /\ spline' = spline
    /\ call'.op = "eval_spline" => Coeffs(spline') = Coeffs(spline)
    /\ call'.op = "fit" =>
           LET fresh == Spline3rdOrder_init(spline.k, spline.start_n5)
               derived == FitAttrs(fresh, call'.goal_n5, call'.factors_n2)
           IN  /\ IsFit(spline')
               /\ spline'.x_coeffs = derived.x_coeffs
               /\ spline'.y_coeffs = derived.y_coeffs
               /\ spline'.p_coeffs = derived.p_coeffs

\* C10: the spline is unfit (no coefficients) before the first fit, and an
\* evaluation then fails and produces nothing; it is otherwise fit, with the
\* x, y and p coefficients all derived from the most recent fit's goal and
\* factors; an evaluation never changes the coefficients.
C10_TwoStateMachine ==
    /\ [](Unfit(spline) \/ IsFit(spline))
    /\ [](call.op = "none" => Unfit(spline))
    /\ [][C10_Step]_vars

\* a fit on an object that was fit and evaluated before, under another goal
C10_Witness ==
    /\ call.op = "fit"
    /\ "_speed_nk1" \in DOMAIN spline
    /\ spline.goal_n5[1] = Row5(<<0, 1>>, 1, 0)
    /\ spline._position_nk2[1][2] = <<QI(2), QI(0)>>

\* the attributes _eval_spline assigns
OutputAttrs ==
    {"_position_nk2", "_heading_nk1", "_speed_ps_nk1", "_speed_nk1", "_angular_speed_nk1"}
\* the query times the outputs can come from: those of the call when it is an
\* evaluation, else those of any evaluation made
LastQueryTimes ==
    IF call.op = "eval_spline" THEN {call.ts} ELSE {<<AsRationals(r)>> : r \in SmallTimes}

\* C13: after any sequence of fit and eval_spline calls every output channel
\* the spline holds (position, heading, and the speeds when present) is what
\* the coefficients it holds give at the query times of the most recent
\* evaluation; no value of an earlier fit stays next to them.
C13_OutputsFromHeldCoefficients ==
    (OutputAttrs \cap DOMAIN spline # {}) =>
        \E ts \in LastQueryTimes :
            \E computed \in {EvalAttrs(spline, Normalize(ts), TRUE)} :
                \A a \in OutputAttrs \cap DOMAIN spline : spline[a] = computed[a]

====
